---- MODULE Spec2Model ----
(***************************************************************************)
(* EventScout recommendation pipeline (ritwiksharan/event-recommendor).    *)
(*                                                                         *)
(* Specifications over one set of variables:                               *)
(*   Spec      the /recommend route: the catalog fetch and the forecast    *)
(*             fetch run as two pool tasks, the route joins both, checks   *)
(*             the catalog error and calls run_recommendation_agent;       *)
(*   SpecRank  run_recommendation_agent called directly on an              *)
(*             EventAgentOutput, a WeatherAgentOutput and a top_n, with    *)
(*             the judge's reply drawn from JudgeOutcomes;                 *)
(*   SpecParse _parse_scores_json called on reply texts (fenced,           *)
(*             truncated, wrapped in prose), symbol by symbol;             *)
(*   SpecLive  Spec with every step of the route and of its tasks fair;    *)
(*   SpecQA    a caller of run_qa_agent asking questions about a set of    *)
(*             recommendations;                                            *)
(*   SpecEvents   run_events_agent called on its own, every turn of its    *)
(*             page loop fair;                                             *)
(*   SpecWeather  run_weather_agent called on date ranges around the       *)
(*             forecast horizon;                                           *)
(*   SpecWeekend  _is_weekend called on date texts of several spellings.   *)
(*                                                                         *)
(* EventResult and UserRequest are the classes models/schemas.py declares: *)
(* EventResult has no description field and UserRequest has no             *)
(* venue_preference and no vibe_notes.  pydantic drops the keyword         *)
(* arguments events_agent.py and app.py pass for them, so reading          *)
(* event.description (recommendation_agent.py line 36, qa_agent.py line    *)
(* 48) or request.venue_preference (recommendation_agent.py line 150)      *)
(* raises AttributeError.  Of the judge's prompt the state keeps the event *)
(* blocks (the event and the forecast each block describes), not the       *)
(* wording.  qa_agent.py line 5 imports LLM_MODEL from config, a name       *)
(* config.py does not define: every module that calls run_qa_agent         *)
(* (api/routes/qa.py, app.py, eval.py) imports agents.qa_agent first and   *)
(* gets ImportError, so no run_qa_agent call starts.                       *)
(***************************************************************************)
EXTENDS Integers, Sequences, FiniteSets, TLC

\* ------------------------------------------------------------------------
\* Bounds of the model
\* ------------------------------------------------------------------------
\* longest event list handed to run_recommendation_agent in SpecRank
MaxEvents == 3
\* most entries in a judge reply in SpecRank
MaxReply == 1
\* largest top_n tried (the smallest is -1)
MaxTopN == 2
\* most raw events the catalog holds in Spec
MaxCatalog == 2
\* most symbols in the reason text of a score object in SpecParse
MaxReasonLen == 2
\* most symbols of prose before and after the array in SpecParse
MaxProseLen == 1
\* most turns of a chat session in SpecQA
MaxTurns == 3

\* ------------------------------------------------------------------------
\* Program constants
\* ------------------------------------------------------------------------
LLM_EVENT_LIMIT == 50
PAGE_SIZE == 200
PAGE_ITEM_CAP == 1000
FALLBACK_SCORE == 0

\* ------------------------------------------------------------------------
\* Python helpers
\* ------------------------------------------------------------------------
Min(a, b) == IF a < b THEN a ELSE b
Max(a, b) == IF a > b THEN a ELSE b

Range(s) == {s[i] : i \in DOMAIN s}

Front(s) == SubSeq(s, 1, Len(s) - 1)

Last(s) == s[Len(s)]

\* s[:n] : a negative n counts from the end
PySliceTo(s, n) ==
    LET stop == IF n < 0 THEN Max(Len(s) + n, 0) ELSE Min(n, Len(s))
    IN  SubSeq(s, 1, stop)

\* d.get(k) for a dict d modelled as a function; <<>> is None
DictGet(d, k) == IF k \in DOMAIN d THEN <<d[k]>> ELSE <<>>

\* all sequences over S of length at most n
SeqsUpTo(S, n) == UNION {[1..k -> S] : k \in 0..n}

\* ------------------------------------------------------------------------
\* Data model (models/schemas.py)
\* ------------------------------------------------------------------------
EventIds == {"", "a", "b"}
EventDates == {"2026-03-06", "2026-03-07"}

\* EventResult: the fields the ranker reads
EventResult(event_id, date) == [event_id |-> event_id, date |-> date]

\* a raw catalog item: "id" may be missing (<<>>); two items without an id
\* fall on different days
RawEvents ==
    {[id |-> <<>>, localDate |-> "2026-03-06"],
     [id |-> <<>>, localDate |-> "2026-03-07"],
     [id |-> <<"a">>, localDate |-> "2026-03-06"],
     [id |-> <<"b">>, localDate |-> "2026-03-07"]}

\* DailyForecast, keyed by its date
DailyForecast(d) == [date |-> d]

\* WeatherAgentOutput.forecasts: a dict date -> DailyForecast
ForecastsOver(days) == [d \in days |-> DailyForecast(d)]
EmptyForecasts == ForecastsOver({})
ForecastMaps == {ForecastsOver(days) : days \in SUBSET EventDates}

\* EventAgentOutput; error is Optional[str]: <<>> is None
EventAgentOutput(events, total_found, error) ==
    [events |-> events, total_found |-> total_found, error |-> error]

\* the attributes an EventResult and a UserRequest carry: the declared fields
\* (schemas.py, lines 16-34 and 6-13); a keyword argument that names no
\* declared field is dropped when the object is built
EventResultFields ==
    {"event_id", "event_name", "date", "time", "venue_name", "venue_address",
     "venue_city", "venue_state", "venue_latitude", "venue_longitude",
     "price_min", "price_max", "category", "genre", "url", "image_url",
     "is_weekend", "is_outdoor"}
UserRequestFields ==
    {"city", "state_code", "country_code", "start_date", "end_date",
     "event_description", "budget_max"}

\* WeatherAgentOutput
WeatherAgentOutput(forecasts, error) ==
    [forecasts |-> forecasts, error |-> error]

\* ScoredEvent; weather is Optional[DailyForecast]: <<>> is None
ScoredEvent(event, weather, relevance_score, score_reason) ==
    [event |-> event, weather |-> weather,
     relevance_score |-> relevance_score, score_reason |-> score_reason]

\* ------------------------------------------------------------------------
\* The judge's reply (recommendation_agent.py, lines 165-176)
\* ------------------------------------------------------------------------
\* A JSON value, tagged: t is "str", "num", "obj" (o holds the dict) or
\* "arr"/"dict" at the top level (items holds what iterating it yields).
JStr(s) == [t |-> "str", s |-> s, n |-> 0, o |-> <<>>]
JNum(n) == [t |-> "num", s |-> "", n |-> n, o |-> <<>>]
JObj(o) == [t |-> "obj", s |-> "", n |-> 0, o |-> o]

\* values the judge puts under "event_id", "score" and "reason"
IdValues == {JStr(id) : id \in EventIds}
ScoreValues == {JNum(-5), JNum(50), JNum(150), JStr("high")}
ReasonValues == {JStr("r")}

\* one entry of the score list that has a reason: a dict whose "event_id" or
\* "score" key may be missing
ScoreDicts ==
    UNION { {f \in [D -> IdValues \cup ScoreValues \cup ReasonValues] :
                /\ "event_id" \in D => f["event_id"] \in IdValues
                /\ "score" \in D => f["score"] \in ScoreValues
                /\ "reason" \in D => f["reason"] \in ReasonValues}
            : D \in {{"event_id", "score", "reason"}, {"event_id", "reason"},
                     {"score", "reason"}, {"reason"}} }

\* entries whose "reason" key is missing, with and without a score
NoReasonDicts ==
    {[event_id |-> JStr("a"), score |-> JNum(50)], [event_id |-> JStr("a")]}

\* what a reply array may hold: score dicts and entries that are not objects
ReplyItems ==
    {JObj(f) : f \in ScoreDicts \cup NoReasonDicts} \cup {JStr("event_id")}

\* the value json.loads returns: an array, a dict (iterating it yields its
\* keys, strings) or a scalar (not iterable)
JArr(items) == [t |-> "arr", items |-> items]
JDict(keys) == [t |-> "dict", items |-> keys]
JScalar == [t |-> "num", items |-> <<>>]

ParsedValues(n) ==
    {JArr(items) : items \in SeqsUpTo(ReplyItems, n)}
    \cup {JDict(<<>>), JDict(<<JStr("scores")>>), JScalar}

\* outcome of lines 166-176: completion() raises, _parse_scores_json raises,
\* or scores_list is bound to the parsed value
JudgeFailed == [status |-> "call_failed", value |-> JScalar]
JudgeUnparseable == [status |-> "unparseable", value |-> JScalar]
JudgeParsed(v) == [status |-> "parsed", value |-> v]

JudgeOutcomesUpTo(n) ==
    {JudgeFailed, JudgeUnparseable} \cup {JudgeParsed(v) : v \in ParsedValues(n)}

JudgeOutcomes == JudgeOutcomesUpTo(MaxReply)

\* the route hands the judge's outcome to run_recommendation_agent unchanged;
\* Spec draws the failures and the replies of at most one entry
RouteJudgeOutcomes == JudgeOutcomesUpTo(1)

\* ------------------------------------------------------------------------
\* run_recommendation_agent (recommendation_agent.py, lines 72-207)
\* ------------------------------------------------------------------------
\* result of a call: a RecommendationAgentOutput or an exception, with the
\* number of completion() calls made
Returned(recs, calls) ==
    [status |-> "returned", recommendations |-> recs, judge_calls |-> calls,
     exc |-> ""]
Raised(exc, calls) ==
    [status |-> "raised", recommendations |-> <<>>, judge_calls |-> calls,
     exc |-> exc]

\* line 80: if not events_out.events
ShortCircuitNever(events) == FALSE
ShortCircuit(events) == events = <<>>

\* line 87: events_out.events[:LLM_EVENT_LIMIT]
candidate_events(events) == PySliceTo(events, LLM_EVENT_LIMIT)

\* lines 89-94: one block of the prompt per candidate, in order, built from the
\* event and the forecast of its date
event_blocks(cands, forecasts) ==
    [i \in 1..Len(cands) |->
        [event |-> cands[i], weather |-> DictGet(forecasts, cands[i].date)]]

\* index of the last candidate with this event_id
LastIndexOf(cands, id) ==
    CHOOSE i \in DOMAIN cands :
        /\ cands[i].event_id = id
        /\ \A j \in DOMAIN cands : cands[j].event_id = id => j <= i

\* lines 90-93: weather_map[event.event_id] = forecasts.get(event.date);
\* a later candidate with the same event_id overwrites the entry
weather_map(cands, forecasts) ==
    [id \in {cands[i].event_id : i \in DOMAIN cands} |->
        DictGet(forecasts, cands[LastIndexOf(cands, id)].date)]

\* keys of {e.event_id: e for e in candidate_events} in insertion order:
\* a key keeps the position of its first occurrence
FirstOccurrences(cands) ==
    {i \in DOMAIN cands :
        \A j \in 1..(i - 1) : cands[j].event_id # cands[i].event_id}
KeysInOrder(cands) ==
    LET first == FirstOccurrences(cands)
        rank == [i \in first |-> 1 + Cardinality({j \in first : j < i})]
    IN  [k \in 1..Cardinality(first) |->
            cands[CHOOSE i \in first : rank[i] = k].event_id]

\* line 193: event_lookup; a key holds the last candidate with that id
event_lookup(cands) ==
    [keys |-> KeysInOrder(cands),
     val |-> [id \in {cands[i].event_id : i \in DOMAIN cands} |->
                cands[LastIndexOf(cands, id)]]]

\* lines 182-190: one ScoredEvent per candidate, score 0.0
FallbackScored(cands, forecasts) ==
    LET wm == weather_map(cands, forecasts)
    IN  [i \in 1..Len(cands) |->
            ScoredEvent(cands[i], wm[cands[i].event_id], FALLBACK_SCORE,
                        "Scoring error")]

\* line 194: {item["event_id"]: item for item in scores_list}; the exception
\* it raises, "" when it raises none
ItemError(item) ==
    IF item.t # "obj" THEN "TypeError"
    ELSE IF "event_id" \notin DOMAIN item.o THEN "KeyError"
    ELSE ""
ScoresMapError(scores_list) ==
    IF scores_list.t \notin {"arr", "dict"} THEN "TypeError"
    ELSE LET bad == {i \in DOMAIN scores_list.items :
                        ItemError(scores_list.items[i]) # ""}
         IN  IF bad = {} THEN ""
             ELSE ItemError(scores_list.items[CHOOSE i \in bad :
                                                \A j \in bad : i <= j])

\* line 198: scores_map.get(event_id, {"score": 0, "reason": "Not scored by LLM"});
\* the last entry with the id wins
NotScored == [score |-> JNum(0), reason |-> JStr("Not scored by LLM")]
scores_map_get(scores_list, event_id) ==
    LET hits == {i \in DOMAIN scores_list.items :
                    scores_list.items[i].o["event_id"] = JStr(event_id)}
    IN  IF hits = {} THEN NotScored
        ELSE scores_list.items[CHOOSE i \in hits : \A j \in hits : j <= i].o

\* line 202: float(score_data.get("score", 0)); ok is FALSE when float raises
NumericStrings == {"50"}
PyFloat(v) ==
    IF v.t = "num" THEN [ok |-> TRUE, val |-> v.n]
    ELSE IF v.t = "str" /\ v.s \in NumericStrings THEN [ok |-> TRUE, val |-> 50]
    ELSE [ok |-> FALSE, val |-> 0]
ScoreOf(score_data) ==
    PyFloat(IF "score" \in DOMAIN score_data THEN score_data["score"] ELSE JNum(0))

\* line 203: score_data.get("reason", "")
ReasonOf(score_data) ==
    IF "reason" \in DOMAIN score_data THEN score_data["reason"].s ELSE ""

\* lines 196-204: one ScoredEvent per key of event_lookup
scored(cands, forecasts, scores_list) ==
    LET wm == weather_map(cands, forecasts)
        lk == event_lookup(cands)
    IN  [i \in 1..Len(lk.keys) |->
            LET sd == scores_map_get(scores_list, lk.keys[i])
            IN  ScoredEvent(lk.val[lk.keys[i]], wm[lk.keys[i]],
                            ScoreOf(sd).val, ReasonOf(sd))]

\* float() raises for the score of some candidate
ScoredError(cands, scores_list) ==
    LET lk == event_lookup(cands)
    IN  IF \E i \in DOMAIN lk.keys :
              ~ScoreOf(scores_map_get(scores_list, lk.keys[i])).ok
        THEN "ValueError" ELSE ""

\* line 206: scored.sort(key=relevance_score, reverse=True), a stable sort:
\* an element comes after the ones with a higher score and after the earlier
\* ones with its score
SortedPosition(s, i) ==
    1 + Cardinality({j \in DOMAIN s :
                        \/ s[j].relevance_score > s[i].relevance_score
                        \/ /\ s[j].relevance_score = s[i].relevance_score
                           /\ j < i})
SortByScoreDesc(s) ==
    LET position == [i \in DOMAIN s |-> SortedPosition(s, i)]
    IN  [k \in 1..Len(s) |-> s[CHOOSE i \in DOMAIN s : position[i] = k]]

\* line 36, reached from line 94 for the first candidate:
\* _build_event_summary reads event.description
build_event_summary_error(cands) ==
    IF cands # <<>> /\ "description" \notin EventResultFields
    THEN "AttributeError" ELSE ""

\* lines 150-151: request.venue_preference and request.vibe_notes
user_msg_error ==
    IF {"venue_preference", "vibe_notes"} \subseteq UserRequestFields
    THEN "" ELSE "AttributeError"

\* lines 89-163: the exception raised while the prompt is built, outside the
\* try block of line 165; "" when none is raised
PromptError(cands) ==
    IF build_event_summary_error(cands) # ""
    THEN build_event_summary_error(cands)
    ELSE user_msg_error

\* the event blocks of the prompt of a call; line 81 returns before any
\* prompt is built, and no prompt exists when building it raised
judge_prompt(events_out, weather_out) ==
    IF ShortCircuit(events_out.events) THEN <<>>
    ELSE IF PromptError(candidate_events(events_out.events)) # "" THEN <<>>
    ELSE event_blocks(candidate_events(events_out.events),
                      weather_out.forecasts)

run_recommendation_agent(events_out, weather_out, topn, judge_outcome) ==
    IF ShortCircuit(events_out.events) THEN Returned(<<>>, 0)
    ELSE IF PromptError(candidate_events(events_out.events)) # ""
    THEN Raised(PromptError(candidate_events(events_out.events)), 0)
    ELSE
      LET cands == candidate_events(events_out.events)
          fc == weather_out.forecasts
      IN  IF judge_outcome.status # "parsed"
          THEN Returned(PySliceTo(FallbackScored(cands, fc), topn), 1)
          ELSE IF ScoresMapError(judge_outcome.value) # ""
          THEN Raised(ScoresMapError(judge_outcome.value), 1)
          ELSE IF ScoredError(cands, judge_outcome.value) # ""
          THEN Raised(ScoredError(cands, judge_outcome.value), 1)
          ELSE Returned(PySliceTo(SortByScoreDesc(
                            scored(cands, fc, judge_outcome.value)), topn), 1)

\* ------------------------------------------------------------------------
\* _is_weekend (events_agent.py, lines 7-11)
\* ------------------------------------------------------------------------
\* A date string is a sequence of characters.
DigitChars == <<"0", "1", "2", "3", "4", "5", "6", "7", "8", "9">>
IsDigit(c) == c \in Range(DigitChars)
NonZeroDigit(c) == IsDigit(c) /\ c # "0"
DigitValue(c) == CHOOSE n \in 0..9 : DigitChars[n + 1] = c

\* int() of a field: the value of its digits, a leading space skipped
RECURSIVE FieldValue(_)
FieldValue(f) ==
    IF f = <<>> THEN 0
    ELSE IF Last(f) = " " THEN FieldValue(Front(f))
    ELSE 10 * FieldValue(Front(f)) + DigitValue(Last(f))

\* the patterns strptime matches the directives with:
\* %Y \d\d\d\d, %m 1[0-2]|0[1-9]|[1-9], %d 3[0-1]|[1-2]\d|0[1-9]|[1-9]| [1-9]
MatchesYear(f) == Len(f) = 4 /\ \A i \in 1..4 : IsDigit(f[i])
MatchesMonth(f) ==
    \/ Len(f) = 2 /\ f[1] = "1" /\ f[2] \in {"0", "1", "2"}
    \/ Len(f) = 2 /\ f[1] = "0" /\ NonZeroDigit(f[2])
    \/ Len(f) = 1 /\ NonZeroDigit(f[1])
MatchesDay(f) ==
    \/ Len(f) = 2 /\ f[1] = "3" /\ f[2] \in {"0", "1"}
    \/ Len(f) = 2 /\ f[1] \in {"1", "2"} /\ IsDigit(f[2])
    \/ Len(f) = 2 /\ f[1] \in {"0", " "} /\ NonZeroDigit(f[2])
    \/ Len(f) = 1 /\ NonZeroDigit(f[1])

\* the format "%Y-%m-%d" matches the whole string with the second dash at k
SecondDash(s) ==
    {k \in {7, 8} :
        /\ Len(s) > k
        /\ s[5] = "-" /\ s[k] = "-"
        /\ MatchesYear(SubSeq(s, 1, 4))
        /\ MatchesMonth(SubSeq(s, 6, k - 1))
        /\ MatchesDay(SubSeq(s, k + 1, Len(s)))}

\* datetime: the proleptic Gregorian calendar
IsLeap(y) == y % 4 = 0 /\ (y % 100 # 0 \/ y % 400 = 0)
DAYS_IN_MONTH == <<31, 28, 31, 30, 31, 30, 31, 31, 30, 31, 30, 31>>
DaysInMonth(y, m) == IF m = 2 /\ IsLeap(y) THEN 29 ELSE DAYS_IN_MONTH[m]
DaysBeforeYear(y) ==
    (y - 1) * 365 + ((y - 1) \div 4) - ((y - 1) \div 100)
        + ((y - 1) \div 400)
RECURSIVE DaysBeforeMonth(_, _)
DaysBeforeMonth(y, m) ==
    IF m = 1 THEN 0 ELSE DaysBeforeMonth(y, m - 1) + DaysInMonth(y, m - 1)
ToOrdinal(y, m, d) == DaysBeforeYear(y) + DaysBeforeMonth(y, m) + d
\* date.weekday(): Monday is 0, Sunday is 6
Weekday(y, m, d) == (ToOrdinal(y, m, d) + 6) % 7

\* datetime.strptime(date_str, "%Y-%m-%d"): the date, or ValueError when the
\* format does not match the whole string or the fields name no day
StrptimeError == [ok |-> FALSE, y |-> 0, m |-> 0, d |-> 0]
strptime(s) ==
    IF SecondDash(s) = {} THEN StrptimeError
    ELSE LET k == CHOOSE i \in SecondDash(s) : TRUE
             y == FieldValue(SubSeq(s, 1, 4))
             m == FieldValue(SubSeq(s, 6, k - 1))
             d == FieldValue(SubSeq(s, k + 1, Len(s)))
         IN  IF y < 1 \/ d > DaysInMonth(y, m) THEN StrptimeError
             ELSE [ok |-> TRUE, y |-> y, m |-> m, d |-> d]

\* lines 8-11: weekday() in {4, 5, 6}, False on ValueError
is_weekend_sat_sun(date_text) ==
    LET r == strptime(date_text)
    IN  r.ok /\ Weekday(r.y, r.m, r.d) \in {5, 6}
is_weekend(date_text) ==
    LET r == strptime(date_text)
    IN  r.ok /\ Weekday(r.y, r.m, r.d) \in {4, 5, 6}

\* ------------------------------------------------------------------------
\* run_events_agent (events_agent.py, lines 77-116)
\* ------------------------------------------------------------------------
\* lines 54-74: event_id = raw.get("id", ""), date = localDate
parse_event(raw) ==
    EventResult(IF raw.id = <<>> THEN "" ELSE raw.id[1], raw.localDate)

\* no GET of events.json has been made
NoPageResponse ==
    [kind |-> "none", faultstring |-> "", events |-> <<>>, total_pages |-> 0]

\* what one GET of events.json gives: raise_for_status raises, the body holds
\* a fault, the body has no _embedded.events, a page of events, or a single
\* page with one item that _parse_event raises on (an empty venues list)
PageResponses(room) ==
    {[kind |-> "http_error", faultstring |-> "", events |-> <<>>, total_pages |-> 1]}
    \cup {[kind |-> "bad_item", faultstring |-> "", events |-> <<>>, total_pages |-> 1]}
    \cup {[kind |-> "fault", faultstring |-> fs, events |-> <<>>, total_pages |-> 1] :
            fs \in {"", "Invalid ApiKey"}}
    \cup {[kind |-> "no_embedded", faultstring |-> "", events |-> <<>>, total_pages |-> 1]}
    \cup {[kind |-> "page", faultstring |-> "", events |-> evs, total_pages |-> tp] :
            evs \in SeqsUpTo(RawEvents, room), tp \in {1, 3, 9}}

\* str(exc) of the exception a response raises
PageErrorText(resp) ==
    IF resp.kind = "http_error" THEN "HTTPError"
    ELSE IF resp.kind = "bad_item" THEN "list index out of range"
    ELSE resp.faultstring

\* lines 112-113: the success output
EventsAgentSuccessDefaultCount(raw_items) ==
    EventAgentOutput([i \in 1..Len(raw_items) |-> parse_event(raw_items[i])],
                     0, <<>>)
EventsAgentSuccess(raw_items) ==
    LET events == [i \in 1..Len(raw_items) |-> parse_event(raw_items[i])]
    IN  EventAgentOutput(events, Len(events), <<>>)

\* lines 115-116: the error output; events and total_found keep their defaults
EventsAgentErrorKeepsPartial(raw_items, text) == EventsAgentSuccess(raw_items)
EventsAgentError(raw_items, text) == EventAgentOutput(<<>>, 0, <<text>>)

\* line 109: page >= total_pages or page * size >= 1000
LastPageByCapOnly(next_page, total_pages) ==
    next_page * PAGE_SIZE >= PAGE_ITEM_CAP
LastPage(next_page, total_pages) ==
    next_page >= total_pages \/ next_page * PAGE_SIZE >= PAGE_ITEM_CAP

\* ------------------------------------------------------------------------
\* run_weather_agent (weather_agent.py, lines 30-83)
\* ------------------------------------------------------------------------
FORECAST_LIMIT_DAYS == 16

\* lines 36-37 and 51-52: the range sent is start_date to
\* min(end_date, today + 16 days); dates are day numbers
ForecastParams(req, today_is) ==
    [sent |-> TRUE,
     start_date |-> req.start_date,
     end_date |-> Min(req.end_date, today_is + FORECAST_LIMIT_DAYS)]

\* d["time"] of a forecast body: the days it covers, in order
DaySeqs ==
    {<<>>, <<"2026-03-06">>, <<"2026-03-07">>, <<"2026-03-06", "2026-03-07">>}

\* lines 65-78: the forecasts dict after the first k days of the body
ForecastsOfDays(days, k) == ForecastsOver({days[i] : i \in 1..k})

\* what the forecast GET gives: raise_for_status raises, the body reports an
\* error, or a body whose entry bad_at cannot be converted (0: all entries
\* convert)
ForecastResponses ==
    {[kind |-> "http_error", reason |-> "", days |-> <<>>, bad_at |-> 0]}
    \cup {[kind |-> "body_error", reason |-> r, days |-> <<>>, bad_at |-> 0] :
            r \in {"", "out of range"}}
    \cup {[kind |-> "daily", reason |-> "", days |-> ds, bad_at |-> k] :
            ds \in DaySeqs, k \in 0..2}

\* line 80: the success output
WeatherAgentSuccess(forecasts) == WeatherAgentOutput(forecasts, <<>>)

\* lines 82-83: the error output; forecasts keeps its default {}
WeatherAgentError(forecasts, text) == WeatherAgentOutput(EmptyForecasts, <<text>>)

\* ------------------------------------------------------------------------
\* _parse_scores_json (recommendation_agent.py, lines 49-69)
\* ------------------------------------------------------------------------
\* A reply text is a sequence of symbols: the JSON punctuation, the quote,
\* the whitespace characters, the code fence, and words and numbers taken
\* whole.  The double quote character is written QUOTE and the three
\* backticks of a code fence FENCE.
Quote == "QUOTE"
Fence == "FENCE"
JsonTag == "json"
Whitespace == {" ", "\n"}
NumberSymbols == {"50"}

\* str.strip(), str.lstrip(chars), str.rstrip(chars)
LStripSet(s, chars) ==
    LET keep == {i \in DOMAIN s : s[i] \notin chars}
    IN  IF keep = {} THEN <<>>
        ELSE SubSeq(s, CHOOSE i \in keep : \A j \in keep : i <= j, Len(s))
RStripSet(s, chars) ==
    LET keep == {i \in DOMAIN s : s[i] \notin chars}
    IN  IF keep = {} THEN <<>>
        ELSE SubSeq(s, 1, CHOOSE i \in keep : \A j \in keep : j <= i)
Strip(s) == LStripSet(RStripSet(s, Whitespace), Whitespace)

\* str.find(c) and str.rfind(c), 1-based; 0 when c does not occur
Find(s, c) ==
    LET at == {i \in DOMAIN s : s[i] = c}
    IN  IF at = {} THEN 0 ELSE CHOOSE i \in at : \A j \in at : i <= j
RFind(s, c) ==
    LET at == {i \in DOMAIN s : s[i] = c}
    IN  IF at = {} THEN 0 ELSE CHOOSE i \in at : \A j \in at : j <= i

\* the symbols of s at the positions in idx, in order
RECURSIVE SelectAt(_, _, _)
SelectAt(s, idx, i) ==
    IF i > Len(s) THEN <<>>
    ELSE (IF i \in idx THEN <<s[i]>> ELSE <<>>) \o SelectAt(s, idx, i + 1)

\* line 52: re.sub(r"^```(?:json)?\s*", "", raw.strip())
StripOpeningFence(s) ==
    IF s # <<>> /\ s[1] = Fence
    THEN LET t == Tail(s)
             u == IF t # <<>> /\ t[1] = JsonTag THEN Tail(t) ELSE t
         IN  LStripSet(u, Whitespace)
    ELSE s

\* line 53: re.sub(r"\s*```$", "", raw); $ also matches before a final newline
StripClosingFence(s) ==
    IF s # <<>> /\ Last(s) = Fence
    THEN RStripSet(Front(s), Whitespace)
    ELSE IF Len(s) >= 2 /\ Last(s) = "\n" /\ s[Len(s) - 1] = Fence
    THEN RStripSet(SubSeq(s, 1, Len(s) - 2), Whitespace) \o <<"\n">>
    ELSE s

\* line 63: re.sub(r",\s*\{[^}]*$", "", raw): from the first comma that is
\* followed by whitespace and a { with no } after it, to the end
OpensIncompleteObject(s, i) ==
    /\ s[i] = ","
    /\ \E j \in (i + 1)..Len(s) :
          /\ s[j] = "{"
          /\ \A k \in (i + 1)..(j - 1) : s[k] \in Whitespace
          /\ \A k \in (j + 1)..Len(s) : s[k] # "}"
DropIncompleteObject(s) ==
    LET at == {i \in DOMAIN s : OpensIncompleteObject(s, i)}
    IN  IF at = {} THEN s
        ELSE SubSeq(s, 1, (CHOOSE i \in at : \A j \in at : i <= j) - 1)

\* line 67: re.sub(r",\s*([}\]])", r"\1", raw): a comma, and the whitespace
\* after it, go when the next symbol after that whitespace is } or ]
CommaBeforeCloser(s, c) ==
    /\ s[c] = ","
    /\ \E j \in (c + 1)..Len(s) :
          /\ s[j] \in {"}", "]"}
          /\ \A k \in (c + 1)..(j - 1) : s[k] \in Whitespace
RemovedByCommaRule(s, i) ==
    \E c \in 1..i :
        /\ CommaBeforeCloser(s, c)
        /\ \A k \in (c + 1)..i : s[k] \in Whitespace
RemoveTrailingCommas(s) ==
    SelectAt(s, {i \in DOMAIN s : ~RemovedByCommaRule(s, i)}, 1)

\* lines 52-67: the text handed to json.loads
SanitizedText(raw) ==
    LET t == Strip(StripClosingFence(StripOpeningFence(Strip(raw))))
        start == Find(t, "[")
        end == RFind(t, "]")
        u == IF start # 0 /\ end # 0 /\ end > start THEN SubSeq(t, start, end)
             ELSE IF start # 0
             THEN RStripSet(DropIncompleteObject(SubSeq(t, start, Len(t))),
                            {",", " ", "\n"}) \o <<"]">>
             ELSE t
    IN  RemoveTrailingCommas(u)

\* json.loads (line 69) on a text of these symbols.  A parsed value is tagged:
\* "arr" holds the sequence of its elements, "obj" the dict from key text to
\* value, "str" the text between the quotes, "num" the digits of the number.
PArr(elems) == [t |-> "arr", v |-> elems]
PObj(dict) == [t |-> "obj", v |-> dict]
PStr(text) == [t |-> "str", v |-> text]
PNum(digits) == [t |-> "num", v |-> digits]

\* result of parsing at a position: the value and the position after it
ParseOk(val, next) == [ok |-> TRUE, val |-> val, next |-> next]
ParseFail == [ok |-> FALSE, val |-> PNum(<<>>), next |-> 0]

\* first position at or after i that holds no whitespace
SkipWs(s, i) ==
    LET at == {j \in i..Len(s) : s[j] \notin Whitespace}
    IN  IF at = {} THEN Len(s) + 1 ELSE CHOOSE j \in at : \A k \in at : j <= k

SymbolAt(s, i) == IF i \in DOMAIN s THEN s[i] ELSE ""

\* a string starts at i: up to the next quote; a raw newline inside is invalid
ParseString(s, i) ==
    LET close == {j \in (i + 1)..Len(s) : s[j] = Quote}
    IN  IF SymbolAt(s, i) # Quote \/ close = {} THEN ParseFail
        ELSE LET j == CHOOSE j \in close : \A k \in close : j <= k
                 text == SubSeq(s, i + 1, j - 1)
             IN  IF "\n" \in Range(text) THEN ParseFail
                 ELSE ParseOk(PStr(text), j + 1)

\* a number starts at i: the longest run of number symbols
ParseNumber(s, i) ==
    LET stop == {j \in i..Len(s) : s[j] \notin NumberSymbols}
        next == IF stop = {} THEN Len(s) + 1
                ELSE CHOOSE j \in stop : \A k \in stop : j <= k
    IN  ParseOk(PNum(SubSeq(s, i, next - 1)), next)

RECURSIVE ParseValue(_, _)
RECURSIVE ParseElements(_, _, _)
RECURSIVE ParseMembers(_, _, _)

\* the elements of an array after "[", i at the first symbol of an element
ParseElements(s, i, acc) ==
    LET e == ParseValue(s, i)
        k == SkipWs(s, e.next)
    IN  IF ~e.ok THEN ParseFail
        ELSE IF SymbolAt(s, k) = "]" THEN ParseOk(PArr(Append(acc, e.val)), k + 1)
        ELSE IF SymbolAt(s, k) = ","
        THEN ParseElements(s, SkipWs(s, k + 1), Append(acc, e.val))
        ELSE ParseFail

\* the members of an object after "{", i at the quote of a key; a repeated key
\* keeps its last value
ParseMembers(s, i, acc) ==
    LET key == ParseString(s, i)
        colon == SkipWs(s, key.next)
        m == ParseValue(s, SkipWs(s, colon + 1))
        k == SkipWs(s, m.next)
        dict == (key.val.v :> m.val) @@ acc
    IN  IF ~key.ok \/ SymbolAt(s, colon) # ":" THEN ParseFail
        ELSE IF ~m.ok THEN ParseFail
        ELSE IF SymbolAt(s, k) = "}" THEN ParseOk(PObj(dict), k + 1)
        ELSE IF SymbolAt(s, k) = "," THEN ParseMembers(s, SkipWs(s, k + 1), dict)
        ELSE ParseFail

ParseValue(s, i) ==
    LET c == SymbolAt(s, i)
        inner == SkipWs(s, i + 1)
    IN  IF c = "[" THEN
            IF SymbolAt(s, inner) = "]" THEN ParseOk(PArr(<<>>), inner + 1)
            ELSE ParseElements(s, inner, <<>>)
        ELSE IF c = "{" THEN
            IF SymbolAt(s, inner) = "}" THEN ParseOk(PObj(<<>>), inner + 1)
            ELSE ParseMembers(s, inner, <<>>)
        ELSE IF c = Quote THEN ParseString(s, i)
        ELSE IF c \in NumberSymbols THEN ParseNumber(s, i)
        ELSE ParseFail

\* the value json.loads returns, or the failure it raises
Loaded(val) == [ok |-> TRUE, val |-> val]
LoadError == [ok |-> FALSE, val |-> PNum(<<>>)]
json_loads(s) ==
    LET r == ParseValue(s, SkipWs(s, 1))
    IN  IF r.ok /\ SkipWs(s, r.next) > Len(s) THEN Loaded(r.val) ELSE LoadError

\* _parse_scores_json: the parsed value, or the exception of json.loads
parse_scores_json(raw) == json_loads(SanitizedText(raw))

\* ------------------------------------------------------------------------
\* run_qa_agent (qa_agent.py, lines 89-172)
\* ------------------------------------------------------------------------
\* A message text is a sequence of pieces (words and whitespace characters).
QAMessage(role, content) == [role |-> role, content |-> content]
QARequest(conversation_history, user_question) ==
    [conversation_history |-> conversation_history,
     user_question |-> user_question]
QAResponse(answer, updated_history) ==
    [answer |-> answer, updated_history |-> updated_history]

\* config.py, lines 3-22: the names the module defines
ConfigNames ==
    {"TICKETMASTER_API_KEY", "TICKETMASTER_BASE", "ANTHROPIC_API_KEY",
     "CLAUDE_MODEL", "OUTDOOR_KEYWORDS", "WMO_CODES", "BAD_CODES"}

\* line 5: from config import LLM_MODEL, run when a caller imports
\* agents.qa_agent (api/routes/qa.py line 3, app.py line 9, eval.py line 32)
qa_agent_import_error ==
    IF "LLM_MODEL" \in ConfigNames THEN "" ELSE "ImportError"

\* a recommendation as run_qa_agent holds it: a ScoredEvent whose event is an
\* EventResult, named here by its event_name; it carries no description
QARec(event_name) == [event_name |-> event_name]

\* line 48, reached from line 97 for the first recommendation: _build_context
\* reads e.description, outside the try block of line 157
build_context_error(recs) ==
    IF recs # <<>> /\ "description" \notin EventResultFields
    THEN "AttributeError" ELSE ""

\* lines 73-76: not e.description.strip() or len(e.description.strip()) < 60
SPARSE_DESCRIPTION_LEN == 60
needs_search(rec) ==
    \/ Strip(rec.description) = <<>>
    \/ Len(Strip(rec.description)) < SPARSE_DESCRIPTION_LEN

\* lines 31-61: the grounding block, one entry per recommendation in order
\* (line 48: the stripped description or a fixed sentence)
RECURSIVE ContextEntries(_)
ContextEntries(recs) ==
    IF recs = <<>> THEN <<>>
    ELSE ContextEntries(Front(recs))
         \o <<"#", Last(recs).event_name>>
         \o (IF Strip(Last(recs).description) # <<>>
             THEN Strip(Last(recs).description)
             ELSE <<"No description available from Ticketmaster.">>)
build_context(recs) == <<"Top recommended events for the user:">> \o ContextEntries(recs)

\* lines 64-84: one _web_search call per recommendation that needs one, and
\* an enrichment for those whose search returned results (found holds their
\* positions; a failed or empty search adds nothing)
RECURSIVE enrich_with_search(_, _)
enrich_with_search(recs, found) ==
    IF recs = <<>> THEN <<>>
    ELSE enrich_with_search(Front(recs), found)
         \o (IF needs_search(Last(recs)) /\ Len(recs) \in found
             THEN <<"--- Web search results for ", Last(recs).event_name,
                    "results">>
             ELSE <<>>)
SearchedPositions(recs) == {i \in DOMAIN recs : needs_search(recs[i])}

\* lines 100-150: the instructions, the grounding block and the enrichment
Instructions == <<"You are EventScout", "## Recommended Events">>
SystemPrompt(recs, found) ==
    Instructions \o build_context(recs)
    \o (IF enrich_with_search(recs, found) # <<>>
        THEN <<"## Web Search Enrichment">> \o enrich_with_search(recs, found)
        ELSE <<>>)

\* lines 152-155: the system message, the history in order, the new question
BuildMessages(system_prompt, qa_req) ==
    <<QAMessage("system", system_prompt)>>
    \o qa_req.conversation_history
    \o <<QAMessage("user", qa_req.user_question)>>

\* line 164: response.choices[0].message.content.strip()
AnswerOf(content) == Strip(content)

\* line 166: f"Sorry, I encountered an error: {exc}. Please try again."
Apology(exc) == <<"Sorry, I encountered an error: ", exc, ". Please try again.">>

\* lines 168-171: the prior history, then the question and the answer
UpdatedHistory(qa_req, answer) ==
    qa_req.conversation_history
    \o <<QAMessage("user", qa_req.user_question),
         QAMessage("assistant", answer)>>

\* line 168: qa.conversation_history + [...] builds a new list; the list the
\* caller passed is what it was
HistoryArgAfter(qa_req, answer) == qa_req.conversation_history

\* eval.py line 691 (app.py line 274): the caller keeps the returned history
CallerKeeps(resp) == resp.updated_history

\* what completion() does in lines 158-164: it returns a response whose
\* content is a text or None, or it raises
QAContents == {<<"a1">>, <<" ", "a2", "\n">>, <<>>}
QAExceptions == {"timeout", "AuthenticationError"}
NoneHasNoStrip == "'NoneType' object has no attribute 'strip'"
QAJudgeReturned(content) == [kind |-> "content", content |-> content, exc |-> ""]
QAJudgeReturnedNone == [kind |-> "none", content |-> <<>>, exc |-> NoneHasNoStrip]
QAJudgeRaised(exc) == [kind |-> "raised", content |-> <<>>, exc |-> exc]
QAJudgePending == [kind |-> "pending", content |-> <<>>, exc |-> ""]
QAJudgeOutcomes ==
    {QAJudgeReturned(c) : c \in QAContents}
    \cup {QAJudgeReturnedNone}
    \cup {QAJudgeRaised(e) : e \in QAExceptions}

\* what a call that raised leaves: no response, no completion() call
QARaised(exc) ==
    [status |-> "raised", exc |-> exc, response |-> QAResponse(<<>>, <<>>),
     history_arg |-> <<>>, messages |-> <<>>, qa_calls |-> 0, searched |-> {}]

\* lines 89-172: the whole call.  found holds the positions whose search
\* returned results, outcome is what completion() does.  _build_context
\* (line 97) raises to the caller when there is a recommendation; completion()
\* is called without a timeout argument (lines 158-163), so with a judge that
\* stays silent the call does not end
run_qa_agent(qa_req, recs, found, outcome) ==
    IF build_context_error(recs) # ""
    THEN QARaised(build_context_error(recs))
    ELSE LET answer == IF outcome.kind = "content"
                       THEN AnswerOf(outcome.content)
                       ELSE Apology(outcome.exc)
         IN  [status |-> (IF outcome.kind = "pending" THEN "awaiting"
                          ELSE "returned"),
              exc |-> "",
              response |-> (IF outcome.kind = "pending"
                            THEN QAResponse(<<>>, <<>>)
                            ELSE QAResponse(answer,
                                            UpdatedHistory(qa_req, answer))),
              history_arg |-> HistoryArgAfter(qa_req, answer),
              messages |-> BuildMessages(SystemPrompt(recs, found), qa_req),
              qa_calls |-> 1,
              searched |-> SearchedPositions(recs)]

\* ------------------------------------------------------------------------
\* recommend (api/routes/recommend.py, lines 11-23)
\* ------------------------------------------------------------------------
\* Future.result() returns once the task has returned
FutureResultNoWait(task_pc) == TRUE
FutureResultReady(task_pc) == task_pc \in {"done", "failed"}

\* line 20: if events_out.error (None and "" are falsy)
Truthy(opt_text) == opt_text # <<>> /\ opt_text[1] # ""

\* ------------------------------------------------------------------------
\* State
\* ------------------------------------------------------------------------
VARIABLES
    pc,           \* the caller: position in recommend(), or in the direct call
    top_n,        \* the top_n argument
    ev_pc,        \* the run_events_agent task
    page,         \* run_events_agent: next page index
    all_raw,      \* run_events_agent: raw items accumulated
    ev_ret,       \* value the events future holds once the task is done
    wx_pc,        \* the run_weather_agent task
    wx_ret,       \* value the weather future holds once the task is done
    events_out,   \* recommend(): events_out, once f_events.result() returned
    weather_out,  \* recommend(): weather_out, once f_weather.result() returned
    judge,        \* outcome of the judge call of this run
    judge_calls,  \* completion() calls made in this run
    result,       \* what the operation returned or raised
    reply,        \* _parse_scores_json: the reply text and how it was built
    parse_ret,    \* _parse_scores_json: what the call returned or raised
    history0,     \* chat: the history the session started with
    history,      \* chat: the history the caller holds
    qa_pc,        \* run_qa_agent: "idle", or "awaiting" inside completion()
    qa,           \* run_qa_agent: the QARequest of the last call
    messages,     \* run_qa_agent: the messages passed to completion()
    qa_calls,     \* completion() calls made by the last run_qa_agent call
    qa_judge,     \* what completion() does in the last call when called
    qa_ret,       \* the QAResponse the last call returned
    turns,        \* chat: run_qa_agent calls that have returned
    request,      \* recommend(): the UserRequest (its date range)
    catalog_requests,   \* requests.get calls made by run_events_agent
    forecast_requests,  \* requests.get calls made by run_weather_agent
    catalog_items,      \* raw items the catalog has served to run_events_agent
    today,              \* date.today() of the run, a day number
    forecast_params,    \* start_date and end_date sent to the forecast API
    prompt,             \* the event blocks of the prompt sent to the judge
    page_resp,          \* run_events_agent: what the last GET gave
    qa_recs,      \* chat: the recommendations of the session's QARequests
    search_calls, \* chat: _web_search calls made for each recommendation
    qa_exc,       \* the exception the caller of run_qa_agent got last, or ""
    date_str,     \* _is_weekend: the argument
    weekend_ret   \* _is_weekend: what the call returned

route_vars == <<pc, top_n, ev_pc, page, all_raw, ev_ret, wx_pc, wx_ret,
                events_out, weather_out, judge, judge_calls, result,
                request, catalog_requests, forecast_requests, catalog_items,
                today, forecast_params, prompt, page_resp>>
parse_vars == <<reply, parse_ret>>
qa_vars == <<history0, history, qa_pc, qa, messages, qa_calls, qa_judge,
             qa_ret, turns, qa_recs, search_calls, qa_exc>>
weekend_vars == <<date_str, weekend_ret>>

vars == <<route_vars, parse_vars, qa_vars, weekend_vars>>

NoResult ==
    [status |-> "none", recommendations |-> <<>>, judge_calls |-> 0, exc |-> ""]

TopNs == -1..MaxTopN

\* UserRequest (schemas.py, lines 6-13): start_date and end_date are any two
\* dates, here days of March 2026; no validator relates them, so a request
\* may have its start after its end
UserRequest(start_date, end_date) ==
    [start_date |-> start_date, end_date |-> end_date]
UserRequests == {UserRequest(6, 7), UserRequest(7, 6)}
NoForecastParams == [sent |-> FALSE, start_date |-> 0, end_date |-> 0]
NoRequests ==
    /\ request = UserRequest(6, 7)
    /\ catalog_requests = 0
    /\ forecast_requests = 0
    /\ catalog_items = 0
    /\ today = 1
    /\ forecast_params = NoForecastParams
    /\ prompt = <<>>
    /\ page_resp = NoPageResponse

\* no _parse_scores_json call is part of the run
NoReply == [kind |-> "none", array |-> <<>>, complete |-> 0, raw |-> <<>>]
NotParsed == [ok |-> FALSE, val |-> PNum(<<>>)]
ParseIdle == reply = NoReply /\ parse_ret = NotParsed

\* no chat turn is part of the run
QAIdle ==
    /\ history0 = <<>> /\ history = <<>>
    /\ qa_pc = "idle"
    /\ qa = QARequest(<<>>, <<>>)
    /\ messages = <<>>
    /\ qa_calls = 0
    /\ qa_judge = QAJudgePending
    /\ qa_ret = QAResponse(<<>>, <<>>)
    /\ turns = 0
    /\ qa_recs = <<>>
    /\ search_calls = <<>>
    /\ qa_exc = ""

\* no _is_weekend call is part of the run
NoDate == [kind |-> "none", y |-> 0, m |-> 0, d |-> 0, form |-> "", raw |-> <<>>]
NotCalled == [returned |-> FALSE, value |-> FALSE]
WeekendIdle == date_str = NoDate /\ weekend_ret = NotCalled

\* ------------------------------------------------------------------------
\* SpecRank: run_recommendation_agent called on its own
\* ------------------------------------------------------------------------
CandidateEvents == {parse_event(raw) : raw \in RawEvents}
EventLists == SeqsUpTo(CandidateEvents, MaxEvents)

InitRank ==
    /\ pc = "call"
    /\ top_n \in TopNs
    /\ \E evs \in EventLists :
          events_out = EventAgentOutput(evs, Len(evs), <<>>)
    /\ \E fc \in ForecastMaps : weather_out = WeatherAgentOutput(fc, <<>>)
    /\ ev_pc = "none" /\ page = 0 /\ all_raw = <<>>
    /\ ev_ret = EventAgentOutput(<<>>, 0, <<>>)
    /\ wx_pc = "none"
    /\ wx_ret = WeatherAgentOutput(EmptyForecasts, <<>>)
    /\ judge = JudgeFailed
    /\ judge_calls = 0
    /\ result = NoResult
    /\ ParseIdle
    /\ QAIdle
    /\ NoRequests
    /\ WeekendIdle

\* the whole call; j is what completion() does in this run when it is called,
\* and judge_calls counts the calls the function makes
RunRecommendationAgent ==
    /\ pc = "call"
    /\ \E j \in JudgeOutcomes :
          LET r == run_recommendation_agent(events_out, weather_out, top_n, j)
          IN  /\ judge' = j
              /\ result' = r
              /\ judge_calls' = judge_calls + r.judge_calls
    /\ prompt' = judge_prompt(events_out, weather_out)
    /\ pc' = "done"
    /\ UNCHANGED <<top_n, ev_pc, page, all_raw, ev_ret, wx_pc, wx_ret,
                   events_out, weather_out>>
    /\ UNCHANGED <<parse_vars, qa_vars, weekend_vars>>
    /\ UNCHANGED <<request, catalog_requests, forecast_requests>>
    /\ UNCHANGED <<catalog_items, today, forecast_params, page_resp>>

NextRank == RunRecommendationAgent

SpecRank == InitRank /\ [][NextRank]_vars

\* ------------------------------------------------------------------------
\* SpecParse: _parse_scores_json called on replies of the judge
\* ------------------------------------------------------------------------
\* One score object as the prompt asks for it (recommendation_agent.py, lines
\* 161-162); its reason is any text of at most MaxReasonLen symbols, JSON
\* punctuation included.
ReasonSymbols == {"x", ",", "]", "}"}
ReasonTexts == SeqsUpTo(ReasonSymbols, MaxReasonLen)
ScoreObject(reason) ==
    [event_id |-> <<"x">>, score |-> <<"50">>, reason |-> reason]
PlainObject == ScoreObject(<<"x">>)

\* arrays of one object, and of two objects of which one is plain
ScoreArrays ==
    {<<ScoreObject(r)>> : r \in ReasonTexts}
    \cup {<<PlainObject, ScoreObject(r)>> : r \in ReasonTexts}
    \cup {<<ScoreObject(r), PlainObject>> : r \in ReasonTexts}

\* the JSON text of a string, of a score object and of an array whose
\* elements are separated by a comma and sep; trailing adds a comma before ]
DumpString(text) == <<Quote>> \o text \o <<Quote>>
DumpObject(o) ==
    <<"{">> \o DumpString(<<"event_id">>) \o <<":">> \o DumpString(o.event_id)
    \o <<",">> \o DumpString(<<"score">>) \o <<":">> \o o.score
    \o <<",">> \o DumpString(<<"reason">>) \o <<":">> \o DumpString(o.reason)
    \o <<"}">>
RECURSIVE DumpElements(_, _)
DumpElements(objs, sep) ==
    IF objs = <<>> THEN <<>>
    ELSE IF Len(objs) = 1 THEN DumpObject(objs[1])
    ELSE DumpObject(objs[1]) \o <<",">> \o sep \o DumpElements(Tail(objs), sep)
DumpArray(objs, sep, trailing) ==
    <<"[">> \o DumpElements(objs, sep)
    \o (IF trailing THEN <<",">> \o sep ELSE <<>>) \o <<"]">>

\* the array obtained by strictly parsing the clean text of objs
StrictParse(objs) == json_loads(DumpArray(objs, <<>>, FALSE))

Separators == {<<>>, <<"\n", " ">>}

\* the array in a code fence, with or without the json tag, and with a comma
\* before the closing ]
FencedReplies ==
    {[kind |-> "fenced", array |-> A, complete |-> Len(A),
      raw |-> <<Fence>> \o tag \o <<"\n">> \o DumpArray(A, sep, TRUE)
              \o <<"\n", Fence>>] :
        A \in ScoreArrays, tag \in {<<>>, <<JsonTag>>}, sep \in Separators}

\* the array cut off inside its last object, after at least one complete
\* object: the text stops at or after the { of the last object and before
\* its }
CutPoints(A, sep) ==
    LET full == DumpArray(A, sep, FALSE)
    IN  (Len(full) - Len(DumpObject(Last(A))))..(Len(full) - 2)
TruncatedReplies ==
    UNION {{[kind |-> "truncated", array |-> A, complete |-> Len(A) - 1,
             raw |-> SubSeq(DumpArray(A, sep, FALSE), 1, cut)] :
                cut \in CutPoints(A, sep)} :
            A \in {B \in ScoreArrays : Len(B) >= 2}, sep \in Separators}

\* prose, the array, prose
ProseSymbols == {"x", "[", "]"}
ProseTexts == SeqsUpTo(ProseSymbols, MaxProseLen)
ProseReplies ==
    {[kind |-> "prose", array |-> <<ScoreObject(r)>>, complete |-> 1,
      raw |-> lead \o <<"\n">> \o DumpArray(<<ScoreObject(r)>>, <<>>, FALSE)
              \o <<"\n">> \o trail] :
        r \in ReasonTexts, lead \in ProseTexts, trail \in ProseTexts}

Replies == FencedReplies \cup TruncatedReplies \cup ProseReplies

RouteIdle ==
    /\ top_n = 0
    /\ ev_pc = "none" /\ page = 0 /\ all_raw = <<>>
    /\ ev_ret = EventAgentOutput(<<>>, 0, <<>>)
    /\ wx_pc = "none"
    /\ wx_ret = WeatherAgentOutput(EmptyForecasts, <<>>)
    /\ events_out = EventAgentOutput(<<>>, 0, <<>>)
    /\ weather_out = WeatherAgentOutput(EmptyForecasts, <<>>)
    /\ judge = JudgeFailed
    /\ judge_calls = 0
    /\ result = NoResult
    /\ NoRequests

InitParse ==
    /\ pc = "call"
    /\ reply \in Replies
    /\ parse_ret = NotParsed
    /\ RouteIdle
    /\ QAIdle
    /\ WeekendIdle

\* line 176: scores_list = _parse_scores_json(raw_json)
ParseScoresJson ==
    /\ pc = "call"
    /\ parse_ret' = parse_scores_json(reply.raw)
    /\ pc' = "done"
    /\ UNCHANGED <<top_n, ev_pc, page, all_raw, ev_ret, wx_pc, wx_ret,
                   events_out, weather_out, judge, judge_calls, result, reply,
                   qa_vars, weekend_vars>>
    /\ UNCHANGED <<request, catalog_requests, forecast_requests>>
    /\ UNCHANGED <<catalog_items, today, forecast_params, prompt, page_resp>>

NextParse == ParseScoresJson

SpecParse == InitParse /\ [][NextParse]_vars

\* ------------------------------------------------------------------------
\* SpecWeekend: _is_weekend called on date strings
\* ------------------------------------------------------------------------
\* The strings written from a year, a month number and a day number (numbers
\* that name no month or no day included): zero-padded, without padding, and
\* with the day padded by a space; and strings of other shapes.
MaxMonth == 13
MaxDay == 32
Years == {2000, 2024, 2026, 2100}
Pad2(n) == <<DigitChars[(n \div 10) + 1], DigitChars[(n % 10) + 1]>>
Year4(y) == Pad2(y \div 100) \o Pad2(y % 100)
Plain(n) == IF n < 10 THEN <<DigitChars[n + 1]>> ELSE Pad2(n)
SpacePad(n) == IF n < 10 THEN <<" ", DigitChars[n + 1]>> ELSE Pad2(n)
DateForms == {"padded", "plain", "space"}
DateText(y, m, d, form) ==
    Year4(y) \o <<"-">>
    \o (IF form = "plain" THEN Plain(m) ELSE Pad2(m)) \o <<"-">>
    \o (IF form = "plain" THEN Plain(d)
        ELSE IF form = "space" THEN SpacePad(d) ELSE Pad2(d))
OtherTexts ==
    {<<>>, <<"T", "B", "D">>,
     DateText(2026, 3, 6, "padded") \o <<" ">>,
     <<" ">> \o DateText(2026, 3, 6, "padded"),
     DateText(2026, 3, 6, "padded") \o <<"T", "1", "0">>,
     Year4(2026) \o <<"/", "0", "3", "/", "0", "6">>,
     <<"2", "6", "-", "0", "3", "-", "0", "6">>,
     <<"0">> \o DateText(2026, 3, 6, "padded"),
     DateText(2026, 3, 6, "padded") \o <<"0">>,
     Year4(2026) \o <<"-", "-", "0", "3", "-", "0", "6">>,
     Year4(2026) \o <<"-", " ", "3", "-", "0", "6">>,
     Year4(0) \o <<"-", "0", "1", "-", "0", "1">>,
     Year4(2026) \o <<"0", "3", "0", "6">>}
DateInputs ==
    {[kind |-> "ymd", y |-> y, m |-> m, d |-> d, form |-> f,
      raw |-> DateText(y, m, d, f)] :
        y \in Years, m \in 0..MaxMonth, d \in 0..MaxDay, f \in DateForms}
    \cup {[kind |-> "other", y |-> 0, m |-> 0, d |-> 0, form |-> "", raw |-> t] :
            t \in OtherTexts}

InitWeekend ==
    /\ pc = "call"
    /\ date_str \in DateInputs
    /\ weekend_ret = NotCalled
    /\ RouteIdle
    /\ ParseIdle
    /\ QAIdle

\* line 72 of _parse_event: is_weekend = _is_weekend(event_date)
IsWeekend ==
    /\ pc = "call"
    /\ weekend_ret' = [returned |-> TRUE, value |-> is_weekend(date_str.raw)]
    /\ pc' = "done"
    /\ UNCHANGED <<top_n, ev_pc, page, all_raw, ev_ret, wx_pc, wx_ret,
                   events_out, weather_out, judge, judge_calls, result,
                   request, catalog_requests, forecast_requests,
                   catalog_items, today, forecast_params, prompt, page_resp>>
    /\ UNCHANGED <<date_str, parse_vars, qa_vars>>

NextWeekend == IsWeekend

SpecWeekend == InitWeekend /\ [][NextWeekend]_vars

\* ------------------------------------------------------------------------
\* SpecQA: a caller asks questions about a set of recommendations
\* ------------------------------------------------------------------------
QuestionTexts == {<<"q1">>, <<"q2">>}
\* the history the caller starts with: empty (eval.py line 688), or any list
\* a client of the /qa route sends
InitialHistories ==
    {<<>>,
     <<QAMessage("assistant", <<"hello">>)>>,
     <<QAMessage("user", <<"q0">>), QAMessage("assistant", <<"a0">>)>>}

\* the recommendations of the session: none, one, two
QARecLists == {<<>>, <<QARec("A")>>, <<QARec("A"), QARec("B")>>}

InitQA ==
    /\ pc = "qa"
    /\ qa_recs \in QARecLists
    /\ search_calls = [i \in DOMAIN qa_recs |-> 0]
    /\ qa_exc = ""
    /\ history0 \in InitialHistories
    /\ history = history0
    /\ qa_pc = "idle"
    /\ qa = QARequest(<<>>, <<>>)
    /\ messages = <<>>
    /\ qa_calls = 0
    /\ qa_judge = QAJudgePending
    /\ qa_ret = QAResponse(<<>>, <<>>)
    /\ turns = 0
    /\ RouteIdle
    /\ ParseIdle
    /\ WeekendIdle

\* lines 77-79: the searches that return results, when the call gets to them
SearchResults(recs) ==
    IF qa_agent_import_error # "" \/ build_context_error(recs) # ""
    THEN {{}}
    ELSE SUBSET SearchedPositions(recs)

\* a caller imports agents.qa_agent and calls run_qa_agent with a history and
\* a question: the import raises; were the module loaded, the call would run
\* (lines 89-172) and the caller would keep the returned history
RunQAAgent(conversation_history) ==
    /\ qa_pc = "idle"
    /\ turns < MaxTurns
    /\ \E q \in QuestionTexts, j \in QAJudgeOutcomes \cup {QAJudgePending},
          found \in SearchResults(qa_recs) :
          LET req == QARequest(conversation_history, q)
              r == IF qa_agent_import_error # ""
                   THEN QARaised(qa_agent_import_error)
                   ELSE run_qa_agent(req, qa_recs, found, j)
          IN  /\ qa' = (IF r.status = "raised" THEN req
                        ELSE [req EXCEPT !.conversation_history = r.history_arg])
              /\ qa_judge' = j
              /\ qa_exc' = r.exc
              /\ qa_calls' = r.qa_calls
              /\ messages' = r.messages
              /\ search_calls' =
                    [i \in DOMAIN qa_recs |->
                        search_calls[i] + (IF i \in r.searched THEN 1 ELSE 0)]
              /\ qa_ret' = (IF r.status = "returned" THEN r.response ELSE qa_ret)
              /\ history' = (IF r.status = "returned"
                             THEN CallerKeeps(r.response) ELSE history)
              /\ turns' = (IF r.status = "returned" THEN turns + 1 ELSE turns)
              /\ qa_pc' = (IF r.status = "awaiting" THEN "awaiting" ELSE "idle")
    /\ UNCHANGED <<history0, qa_recs, route_vars, parse_vars, weekend_vars>>

\* routes/qa.py lines 3-11 (eval.py lines 32 and 690): the caller passes the
\* history it holds
AskQuestion == RunQAAgent(history)

NextQA == AskQuestion

SpecQA == InitQA /\ [][NextQA]_vars

\* ------------------------------------------------------------------------
\* Spec: the /recommend route
\* ------------------------------------------------------------------------
Init ==
    /\ pc = "start"
    /\ top_n \in TopNs
    /\ ev_pc = "none" /\ page = 0 /\ all_raw = <<>>
    /\ ev_ret = EventAgentOutput(<<>>, 0, <<>>)
    /\ wx_pc = "none"
    /\ wx_ret = WeatherAgentOutput(EmptyForecasts, <<>>)
    /\ events_out = EventAgentOutput(<<>>, 0, <<>>)
    /\ weather_out = WeatherAgentOutput(EmptyForecasts, <<>>)
    /\ judge = JudgeFailed
    /\ judge_calls = 0
    /\ result = NoResult
    /\ ParseIdle
    /\ QAIdle
    /\ request \in UserRequests
    /\ catalog_requests = 0
    /\ forecast_requests = 0
    /\ catalog_items = 0
    /\ today = 1
    /\ forecast_params = NoForecastParams
    /\ prompt = <<>>
    /\ page_resp = NoPageResponse
    /\ WeekendIdle

\* line 15: pool.submit(run_events_agent, request); a worker starts the task
SubmitEvents ==
    /\ pc = "start"
    /\ pc' = "submitted_events"
    /\ ev_pc' = "running"
    /\ UNCHANGED <<top_n, page, all_raw, ev_ret, wx_pc, wx_ret, events_out,
                   weather_out, judge, judge_calls, result>>
    /\ UNCHANGED <<parse_vars, qa_vars, weekend_vars>>
    /\ UNCHANGED <<request, catalog_requests, forecast_requests>>
    /\ UNCHANGED <<catalog_items, today, forecast_params, prompt, page_resp>>

\* line 16: pool.submit(run_weather_agent, request); the second worker starts it
SubmitWeather ==
    /\ pc = "submitted_events"
    /\ pc' = "wait_events"
    /\ wx_pc' = "geocode"
    /\ UNCHANGED <<top_n, ev_pc, page, all_raw, ev_ret, wx_ret, events_out,
                   weather_out, judge, judge_calls, result>>
    /\ UNCHANGED <<parse_vars, qa_vars, weekend_vars>>
    /\ UNCHANGED <<request, catalog_requests, forecast_requests>>
    /\ UNCHANGED <<catalog_items, today, forecast_params, prompt, page_resp>>

\* events_agent.py lines 94-116: one turn of the page loop, and the return
\* when the loop ends, a request fails or line 112 raises on an item (page
\* and all_raw are locals: they are gone once the function has returned)
EventsRequestPage ==
    /\ ev_pc = "running"
    /\ \E resp \in PageResponses(MaxCatalog - Len(all_raw)) :
          /\ page_resp' = resp
          /\ catalog_items' = catalog_items
                    + (IF resp.kind = "bad_item" THEN 1 ELSE Len(resp.events))
          /\ IF resp.kind \in {"http_error", "fault", "bad_item"}
             THEN /\ ev_ret' = EventsAgentError(all_raw, PageErrorText(resp))
                  /\ ev_pc' = "failed"
                  /\ page' = 0 /\ all_raw' = <<>>
             ELSE IF resp.kind = "no_embedded"
             THEN /\ ev_ret' = EventsAgentSuccess(all_raw)
                  /\ ev_pc' = "done"
                  /\ page' = 0 /\ all_raw' = <<>>
             ELSE IF LastPage(page + 1, resp.total_pages)
             THEN /\ ev_ret' = EventsAgentSuccess(all_raw \o resp.events)
                  /\ ev_pc' = "done"
                  /\ page' = 0 /\ all_raw' = <<>>
             ELSE /\ all_raw' = all_raw \o resp.events
                  /\ page' = page + 1
                  /\ UNCHANGED <<ev_pc, ev_ret>>
    /\ UNCHANGED <<pc, top_n, wx_pc, wx_ret, events_out, weather_out, judge,
                   judge_calls, result>>
    /\ UNCHANGED <<parse_vars, qa_vars, weekend_vars>>
    /\ catalog_requests' = catalog_requests + 1
    /\ UNCHANGED <<request, forecast_requests>>
    /\ UNCHANGED <<today, forecast_params, prompt>>

\* weather_agent.py line 33: _geocode; it raises on an HTTP error and when the
\* city has no result
WeatherGeocode ==
    /\ wx_pc = "geocode"
    /\ \/ /\ wx_pc' = "forecast"
          /\ UNCHANGED wx_ret
       \/ \E text \in {"HTTPError", "Cannot geocode city"} :
             /\ wx_ret' = WeatherAgentError(EmptyForecasts, text)
             /\ wx_pc' = "failed"
    /\ UNCHANGED <<pc, top_n, ev_pc, page, all_raw, ev_ret, events_out,
                   weather_out, judge, judge_calls, result>>
    /\ UNCHANGED <<parse_vars, qa_vars, weekend_vars>>
    /\ forecast_requests' = forecast_requests + 1
    /\ UNCHANGED <<request, catalog_requests>>
    /\ UNCHANGED <<catalog_items, today, forecast_params, prompt, page_resp>>

\* weather_agent.py lines 36-83: the forecast request, the loop over the days
\* and the return
WeatherForecast ==
    /\ wx_pc = "forecast"
    /\ \E resp \in ForecastResponses :
          IF resp.kind = "http_error"
          THEN /\ wx_ret' = WeatherAgentError(EmptyForecasts, "HTTPError")
               /\ wx_pc' = "failed"
          ELSE IF resp.kind = "body_error"
          THEN /\ wx_ret' = WeatherAgentError(EmptyForecasts, resp.reason)
               /\ wx_pc' = "failed"
          ELSE IF resp.bad_at \in 1..Len(resp.days)
          THEN /\ wx_ret' = WeatherAgentError(
                                ForecastsOfDays(resp.days, resp.bad_at - 1),
                                "ValueError")
               /\ wx_pc' = "failed"
          ELSE /\ wx_ret' = WeatherAgentSuccess(
                                ForecastsOfDays(resp.days, Len(resp.days)))
               /\ wx_pc' = "done"
    /\ UNCHANGED <<pc, top_n, ev_pc, page, all_raw, ev_ret, events_out,
                   weather_out, judge, judge_calls, result>>
    /\ UNCHANGED <<parse_vars, qa_vars, weekend_vars>>
    /\ forecast_requests' = forecast_requests + 1
    /\ forecast_params' = ForecastParams(request, today)
    /\ UNCHANGED <<request, catalog_requests>>
    /\ UNCHANGED <<catalog_items, today, prompt, page_resp>>

\* line 17: events_out = f_events.result()
JoinEvents ==
    /\ pc = "wait_events"
    /\ FutureResultReady(ev_pc)
    /\ events_out' = ev_ret
    /\ pc' = "wait_weather"
    /\ UNCHANGED <<top_n, ev_pc, page, all_raw, ev_ret, wx_pc, wx_ret,
                   weather_out, judge, judge_calls, result>>
    /\ UNCHANGED <<parse_vars, qa_vars, weekend_vars>>
    /\ UNCHANGED <<request, catalog_requests, forecast_requests>>
    /\ UNCHANGED <<catalog_items, today, forecast_params, prompt, page_resp>>

\* line 18: weather_out = f_weather.result(); leaving the with block then
\* waits for tasks that have already returned
JoinWeather ==
    /\ pc = "wait_weather"
    /\ FutureResultReady(wx_pc)
    /\ weather_out' = wx_ret
    /\ pc' = "check"
    /\ UNCHANGED <<top_n, ev_pc, page, all_raw, ev_ret, wx_pc, wx_ret,
                   events_out, judge, judge_calls, result>>
    /\ UNCHANGED <<parse_vars, qa_vars, weekend_vars>>
    /\ UNCHANGED <<request, catalog_requests, forecast_requests>>
    /\ UNCHANGED <<catalog_items, today, forecast_params, prompt, page_resp>>

\* lines 20-21: the catalog failed, return an empty RecommendationSet
ReturnEmptyOnCatalogError ==
    /\ pc = "check"
    /\ Truthy(events_out.error)
    /\ result' = Returned(<<>>, 0)
    /\ pc' = "done"
    /\ UNCHANGED <<top_n, ev_pc, page, all_raw, ev_ret, wx_pc, wx_ret,
                   events_out, weather_out, judge, judge_calls>>
    /\ UNCHANGED <<parse_vars, qa_vars, weekend_vars>>
    /\ UNCHANGED <<request, catalog_requests, forecast_requests>>
    /\ UNCHANGED <<catalog_items, today, forecast_params, prompt, page_resp>>

\* line 23: return run_recommendation_agent(request, events_out, weather_out,
\* top_n=top_n)
ScoreAndRank ==
    /\ pc = "check"
    /\ ~Truthy(events_out.error)
    /\ \E j \in RouteJudgeOutcomes :
          LET r == run_recommendation_agent(events_out, weather_out, top_n, j)
          IN  /\ judge' = j
              /\ result' = r
              /\ judge_calls' = judge_calls + r.judge_calls
    /\ prompt' = judge_prompt(events_out, weather_out)
    /\ pc' = "done"
    /\ UNCHANGED <<top_n, ev_pc, page, all_raw, ev_ret, wx_pc, wx_ret,
                   events_out, weather_out>>
    /\ UNCHANGED <<parse_vars, qa_vars, weekend_vars>>
    /\ UNCHANGED <<request, catalog_requests, forecast_requests>>
    /\ UNCHANGED <<catalog_items, today, forecast_params, page_resp>>

\* ------------------------------------------------------------------------
\* SpecWeather: run_weather_agent called on its own
\* ------------------------------------------------------------------------
\* days around the forecast horizon of the first of the month, today + 16
MaxBeyondHorizon == 2
RequestDays ==
    (1 + FORECAST_LIMIT_DAYS - MaxBeyondHorizon)
        ..(1 + FORECAST_LIMIT_DAYS + MaxBeyondHorizon)
WeatherRequests == {UserRequest(s, e) : s \in RequestDays, e \in RequestDays}
Todays == {1, 2}

InitWeather ==
    /\ pc = "weather"
    /\ request \in WeatherRequests
    /\ today \in Todays
    /\ wx_pc = "geocode"
    /\ wx_ret = WeatherAgentOutput(EmptyForecasts, <<>>)
    /\ top_n = 0
    /\ ev_pc = "none" /\ page = 0 /\ all_raw = <<>>
    /\ ev_ret = EventAgentOutput(<<>>, 0, <<>>)
    /\ events_out = EventAgentOutput(<<>>, 0, <<>>)
    /\ weather_out = WeatherAgentOutput(EmptyForecasts, <<>>)
    /\ judge = JudgeFailed
    /\ judge_calls = 0
    /\ result = NoResult
    /\ catalog_requests = 0
    /\ forecast_requests = 0
    /\ catalog_items = 0
    /\ forecast_params = NoForecastParams
    /\ prompt = <<>>
    /\ page_resp = NoPageResponse
    /\ ParseIdle
    /\ QAIdle
    /\ WeekendIdle

NextWeather ==
    \/ WeatherGeocode
    \/ WeatherForecast

SpecWeather == InitWeather /\ [][NextWeather]_vars

\* ------------------------------------------------------------------------
\* SpecEvents: run_events_agent called on its own
\* ------------------------------------------------------------------------
InitEvents ==
    /\ pc = "events"
    /\ request \in UserRequests
    /\ ev_pc = "running" /\ page = 0 /\ all_raw = <<>>
    /\ ev_ret = EventAgentOutput(<<>>, 0, <<>>)
    /\ top_n = 0
    /\ wx_pc = "none"
    /\ wx_ret = WeatherAgentOutput(EmptyForecasts, <<>>)
    /\ events_out = EventAgentOutput(<<>>, 0, <<>>)
    /\ weather_out = WeatherAgentOutput(EmptyForecasts, <<>>)
    /\ judge = JudgeFailed
    /\ judge_calls = 0
    /\ result = NoResult
    /\ catalog_requests = 0
    /\ forecast_requests = 0
    /\ catalog_items = 0
    /\ today = 1
    /\ forecast_params = NoForecastParams
    /\ prompt = <<>>
    /\ page_resp = NoPageResponse
    /\ ParseIdle
    /\ QAIdle
    /\ WeekendIdle

NextEvents == EventsRequestPage

\* the requests.get call of line 96 has timeout=10, so every turn of the loop
\* ends, with a response or with an exception
SpecEvents == InitEvents /\ [][NextEvents]_vars /\ WF_vars(EventsRequestPage)

Next ==
    \/ SubmitEvents
    \/ SubmitWeather
    \/ EventsRequestPage
    \/ WeatherGeocode
    \/ WeatherForecast
    \/ JoinEvents
    \/ JoinWeather
    \/ ReturnEmptyOnCatalogError
    \/ ScoreAndRank

Spec == Init /\ [][Next]_vars

\* Spec with the scheduling the code has: the pool runs both tasks, every
\* requests.get call has a timeout (events_agent.py line 96, weather_agent.py
\* lines 13 and 57) and the route runs on once its futures are done
SpecLive == Spec /\ WF_vars(Next)

\* ------------------------------------------------------------------------
\* Properties of run_recommendation_agent (SpecRank)
\* ------------------------------------------------------------------------
Recs == result.recommendations
Cands == candidate_events(events_out.events)

\* a call made with at least one event has ended
CalledOnEvents == pc = "done" /\ events_out.events # <<>>

\* C1: whatever the judge replies, a call with candidates returns a
\* RecommendationSet, and every ScoredEvent of a returned RecommendationSet
\* has a relevance_score between 0 and 100.
C1_ScoreInRange ==
    /\ CalledOnEvents => result.status = "returned"
    /\ \A i \in DOMAIN Recs :
          /\ 0 <= Recs[i].relevance_score
          /\ Recs[i].relevance_score <= 100

\* C2: a call with candidates returns its recommendations sorted
\* non-increasing by score, and two events with equal scores keep the
\* relative order they have in the candidate list, on the normal path and on
\* the fallback path.
C2_SortedStable ==
    /\ CalledOnEvents => result.status = "returned"
    /\ result.status = "returned" =>
          /\ \A i \in 1..(Len(Recs) - 1) :
                Recs[i].relevance_score >= Recs[i + 1].relevance_score
          /\ \A i, j \in DOMAIN Recs :
                (i < j /\ Recs[i].relevance_score = Recs[j].relevance_score) =>
                    \E p, q \in DOMAIN Cands :
                        /\ p < q
                        /\ Cands[p] = Recs[i].event
                        /\ Cands[q] = Recs[j].event

\* C3: with at least one candidate, run_recommendation_agent returns a
\* RecommendationSet for every judge outcome; it never raises.
C3_NeverRaises == CalledOnEvents => result.status = "returned"

\* C4: for top_n >= 0 a call with candidates returns min(top_n, number of
\* candidates) recommendations: one ScoredEvent per position of the candidate
\* list, whatever the judge scored.
C4_OnePerCandidate ==
    (pc = "done" /\ top_n >= 0) =>
        /\ result.status = "returned"
        /\ Len(Recs) = Min(top_n, Len(Cands))

\* C6: with zero candidate events run_recommendation_agent returns an empty
\* recommendations list and makes no judge call.
C6_EmptyNoJudgeCall ==
    (pc = "done" /\ events_out.events = <<>>) =>
        /\ result.status = "returned"
        /\ Recs = <<>>
        /\ judge_calls = 0
C6_Witness ==
    /\ pc = "done"
    /\ events_out.events = <<>>
    /\ weather_out.forecasts # EmptyForecasts
    /\ top_n > 0
    /\ result.status = "returned"

\* C10: when the judge call fails or its reply cannot be parsed, exactly one
\* judge call was made and the result is the first top_n candidates in
\* collection order, each with the fixed fallback score and the rationale that
\* states the scoring failure.
C10_FallbackPrefix ==
    (pc = "done" /\ events_out.events # <<>>
        /\ judge.status \in {"call_failed", "unparseable"}) =>
        /\ result.status = "returned"
        /\ judge_calls = 1
        /\ Len(Recs) <= Len(Cands)
        /\ top_n >= 0 => Len(Recs) = Min(top_n, Len(Cands))
        /\ \A i \in DOMAIN Recs :
              /\ Recs[i].event = Cands[i]
              /\ Recs[i].relevance_score = FALLBACK_SCORE
              /\ Recs[i].score_reason = "Scoring error"
\* ------------------------------------------------------------------------
\* Properties of the /recommend route (Spec)
\* ------------------------------------------------------------------------
TaskFinished(task_pc) == task_pc \in {"done", "failed"}

\* C5: for every top_n the route accepts, negative values included, the number
\* of recommendations is at most min(top_n, number of candidates).
C5_LenAtMostTopN ==
    (pc = "done" /\ result.status = "returned") =>
        Len(Recs) <= Min(top_n, Len(Cands))

\* C7: when the catalog fetch ended in an error, the route returns an empty
\* RecommendationSet and no judge call is made, whatever the forecast fetch
\* returned.
C7_CatalogErrorEmpty ==
    (pc = "done" /\ ev_pc = "failed") =>
        /\ result.status = "returned"
        /\ Recs = <<>>
        /\ judge_calls = 0
C7_Witness ==
    /\ pc = "done"
    /\ ev_pc = "failed"
    /\ wx_pc = "done"
    /\ weather_out.forecasts # EmptyForecasts
    /\ result.status = "returned"
C7_WitnessEmptyErrorText ==
    /\ pc = "done"
    /\ ev_pc = "failed"
    /\ events_out.error = <<"">>

\* C8: when only the forecast fetch failed and the catalog gave at least one
\* event, the route still calls the judge and ranks, and every ScoredEvent of
\* the result has no weather.
C8_ForecastErrorNoWeather ==
    (pc = "done" /\ wx_pc = "failed" /\ ev_pc = "done"
        /\ events_out.events # <<>>) =>
        /\ judge_calls = 1
        /\ result.status = "returned"
        /\ \A i \in DOMAIN Recs : Recs[i].weather = <<>>
        /\ top_n > 0 => Len(Recs) > 0

\* C9: the route takes no step after the join (error check, judge call,
\* ranking) before both tasks have returned, and what it holds as events_out
\* and weather_out are the values the finished tasks returned.
C9_JoinBeforeProceed ==
    /\ pc \in {"wait_weather", "check", "done"} =>
          TaskFinished(ev_pc) /\ events_out = ev_ret
    /\ pc \in {"check", "done"} =>
          TaskFinished(wx_pc) /\ weather_out = wx_ret
    /\ (judge_calls > 0 \/ result.status # "none") =>
          TaskFinished(ev_pc) /\ TaskFinished(wx_pc)
C9_Witness ==
    /\ pc = "wait_events"
    /\ TaskFinished(wx_pc)
    /\ ev_pc = "running"
    /\ page > 0
C9_WitnessBothRunning ==
    /\ ev_pc = "running"
    /\ page > 0
    /\ wx_pc = "forecast"

\* ------------------------------------------------------------------------
\* Score-list entries with missing fields (recommendation_agent.py, 193-204)
\* ------------------------------------------------------------------------
\* the entry the ranker used for a returned recommendation
EntryUsedFor(rec) == scores_map_get(judge.value, rec.event.event_id)

\* C11: a score-list entry may lack any of its fields: a call with candidates
\* returns, an event whose entry has no score gets score 0, and an event whose
\* entry has no reason gets a non-empty placeholder rationale.
C11_MissingFieldsDefaulted ==
    CalledOnEvents =>
        /\ result.status = "returned"
        /\ judge.status = "parsed" =>
              \A i \in DOMAIN Recs :
                  /\ "score" \notin DOMAIN EntryUsedFor(Recs[i]) =>
                        Recs[i].relevance_score = 0
                  /\ "reason" \notin DOMAIN EntryUsedFor(Recs[i]) =>
                        Recs[i].score_reason # ""

\* ------------------------------------------------------------------------
\* The sanitizer (recommendation_agent.py, lines 49-69), under SpecParse
\* ------------------------------------------------------------------------
\* C12: for every well-formed array of score objects, whatever symbols its
\* reason texts hold, _parse_scores_json applied to the array wrapped in a code
\* fence (with or without the json tag) with a comma before the closing ]
\* returns exactly the array obtained by strictly parsing the clean text.
C12_FencedRoundTrip ==
    (pc = "done" /\ reply.kind = "fenced") =>
        parse_ret = StrictParse(reply.array)

\* C13: for every array of score objects cut off inside an object after at
\* least one complete object, _parse_scores_json does not raise and returns
\* the complete objects that precede the cut.
C13_TruncationRecovered ==
    (pc = "done" /\ reply.kind = "truncated") =>
        /\ parse_ret.ok
        /\ parse_ret = StrictParse(SubSeq(reply.array, 1, reply.complete))

\* C14: for every reply made of leading prose, a well-formed array of score
\* objects and trailing prose, _parse_scores_json returns exactly that array.
C14_ProseDiscarded ==
    (pc = "done" /\ reply.kind = "prose") =>
        parse_ret = StrictParse(reply.array)

\* ------------------------------------------------------------------------
\* The QA agent (qa_agent.py, lines 152-172), under SpecQA
\* ------------------------------------------------------------------------
\* a caller has asked a question
QACalled == qa_pc = "awaiting" \/ turns > 0 \/ qa_exc # ""
\* a run_qa_agent call has returned
QAReturned == qa_pc = "idle" /\ turns > 0 /\ qa_exc = ""
Prior == qa.conversation_history
Updated == qa_ret.updated_history

\* C15: every run_qa_agent call, whether the judge answers or fails, returns;
\* its updated_history is the prior history followed by exactly two
\* messages, (user, the question) then (assistant, the answer), and the
\* returned answer is the content of that last message.
C15_TwoMessagesAppended ==
    (QACalled /\ qa_judge.kind # "pending") =>
        /\ QAReturned
        /\ Len(Updated) = Len(Prior) + 2
        /\ SubSeq(Updated, 1, Len(Prior)) = Prior
        /\ Updated[Len(Prior) + 1] = QAMessage("user", qa.user_question)
        /\ Updated[Len(Prior) + 2].role = "assistant"
        /\ Updated[Len(Prior) + 2].content = qa_ret.answer

\* C16: starting from an empty history and passing each returned history to
\* the next call, after k turns the history has length 2k (2 at least once a
\* question was asked), its roles alternate user, assistant from the first
\* message, and the history before a turn is an unchanged prefix of the
\* history after it.
AlternatingFromUser(h) ==
    \A i \in DOMAIN h : h[i].role = (IF i % 2 = 1 THEN "user" ELSE "assistant")
AppendOnlyStep ==
    /\ Len(history') >= Len(history)
    /\ SubSeq(history', 1, Len(history)) = history
C16_SessionHistory ==
    /\ [](history0 = <<>> =>
            /\ qa_pc = "idle" => Len(history) = 2 * turns
            /\ (QACalled /\ qa_judge.kind # "pending") => Len(history) >= 2
            /\ AlternatingFromUser(history))
    /\ [][history0 = <<>> => AppendOnlyStep]_vars

\* C17: when the judge call of a QA turn fails, the turn makes no second judge
\* call, its answer is the fixed apology text with the failure detail
\* embedded, and the failure is not raised: the call returns a QAResponse.
C17_FailureGivesApology ==
    (QACalled /\ qa_judge.kind \in {"raised", "none"}) =>
        /\ QAReturned
        /\ qa_calls = 1
        /\ Len(qa_ret.answer) = 3
        /\ qa_ret.answer[1] = "Sorry, I encountered an error: "
        /\ qa_ret.answer[2] = qa_judge.exc
        /\ qa_ret.answer[3] = ". Please try again."
        /\ qa_judge.exc # ""
        /\ Last(Updated) = QAMessage("assistant", qa_ret.answer)

\* ------------------------------------------------------------------------
\* Request validation and visible failures (recommend.py, lines 11-23)
\* ------------------------------------------------------------------------
\* C18: a UserRequest whose start date is after its end date is rejected before
\* any collaborator call: the recommend operation makes no catalog request, no
\* forecast request and no judge call for it.
C18_InvertedRangeRejected ==
    request.start_date > request.end_date =>
        /\ catalog_requests = 0
        /\ forecast_requests = 0
        /\ judge_calls = 0

\* the data the recommend operation returns besides the request
\* (RecommendationAgentOutput, schemas.py lines 67-69: no error field)
ReturnedData(r) == [recommendations |-> r.recommendations]

\* C19: every absorbed failure shows in the returned data: the result after a
\* catalog failure differs from the result of a successful search with zero
\* events, the result after a forecast failure differs from the result of a
\* run whose forecast succeeded but has no forecast for the days, and the
\* result after a judge failure carries a rationale that shows it.
C19_FailuresVisible ==
    (pc = "done" /\ result.status = "returned") =>
        /\ ev_pc = "failed" =>
              ReturnedData(result) #
                  ReturnedData(run_recommendation_agent(
                      EventsAgentSuccess(<<>>), weather_out, top_n, judge))
        /\ (wx_pc = "failed" /\ ev_pc = "done") =>
              ReturnedData(result) #
                  ReturnedData(run_recommendation_agent(
                      events_out, WeatherAgentSuccess(EmptyForecasts), top_n,
                      judge))
        /\ (judge_calls = 1 /\ judge.status # "parsed") =>
              /\ Recs # <<>>
              /\ \A i \in DOMAIN Recs : Recs[i].score_reason = "Scoring error"

\* ------------------------------------------------------------------------
\* Judge calls and timeouts (recommend.py, lines 11-23), under SpecLive
\* ------------------------------------------------------------------------
\* C20: every judge call is bounded by a timeout and ends in the fallback of
\* its stage, so the recommend pipeline always returns: a request that
\* entered the route leads to a returned RecommendationSet.
C20_PipelineReturns ==
    (pc = "start") ~> (pc = "done" /\ result.status = "returned")

\* ------------------------------------------------------------------------
\* Properties of the QA turns: searches, messages, the caller's list (SpecQA)
\* ------------------------------------------------------------------------
\* C21: over the turns of a session on one set of recommendations, one web
\* search is made for each recommendation whose description is absent or
\* sparse (here all of them, no EventResult carries one): once a call has
\* been made the count is 1, however many calls follow.
C21_SearchOncePerSet ==
    \A i \in DOMAIN qa_recs : QACalled => search_calls[i] = 1

\* ------------------------------------------------------------------------
\* Properties of the catalog fetch and of the forecast fetch
\* ------------------------------------------------------------------------
MaxPageRequests == PAGE_ITEM_CAP \div PAGE_SIZE
IsPrefix(a, b) == Len(a) <= Len(b) /\ SubSeq(b, 1, Len(a)) = a
ParsedItems(raw_items) ==
    [i \in 1..Len(raw_items) |-> parse_event(raw_items[i])]

\* after the response to the request for page p the collaborator reports a
\* further page: the body holds an _embedded.events list, empty or not, and
\* totalPages is beyond p + 1
FurtherPage(resp, p) == resp.kind = "page" /\ p + 1 < resp.total_pages
\* the request failed, the body holds a fault or an item cannot be parsed
PageFailed(resp) == resp.kind \in {"http_error", "fault", "bad_item"}

\* one request of the page loop, where more says that the response just
\* received reports a further page: the loop goes on to the next page exactly
\* when more holds and the cap of 5 requests is not reached, and then the
\* items of the page are appended to those accumulated; it fails exactly on a
\* failed response; otherwise it returns, and the events returned are the
\* items of every fetched page, the last one included, in page order,
\* normalized one by one
PageLoopStep(more) ==
    catalog_requests' # catalog_requests =>
        /\ catalog_requests' = catalog_requests + 1
        /\ ev_pc' \in {"running", "done", "failed"}
        /\ (ev_pc' = "running") <=>
              (more /\ catalog_requests' < MaxPageRequests)
        /\ ev_pc' = "running" =>
              /\ page' = page + 1
              /\ all_raw' = all_raw \o page_resp'.events
        /\ (ev_pc' = "failed") <=> PageFailed(page_resp')
        /\ ev_pc' = "done" =>
              /\ ev_ret'.events = ParsedItems(all_raw \o page_resp'.events)
              /\ ev_ret'.total_found = Len(ev_ret'.events)
              /\ ev_ret'.error = <<>>
\* at most 5 requests whatever totalPages is reported, the n-th one for
\* page n - 1
PageRequestsBounded ==
    /\ catalog_requests <= MaxPageRequests
    /\ ev_pc = "running" =>
          /\ page = catalog_requests
          /\ page < MaxPageRequests
PageLoopEnds == (ev_pc = "running") ~> (ev_pc \in {"done", "failed"})

C22_WitnessCap ==
    /\ ev_pc = "done"
    /\ catalog_requests = MaxPageRequests
    /\ page_resp.total_pages > MaxPageRequests
    /\ Len(ev_ret.events) = MaxCatalog
\* the loop went on after a page whose events list is empty
C22_WitnessEmptyPage ==
    /\ ev_pc = "running"
    /\ catalog_requests = 2
    /\ page_resp.kind = "page"
    /\ page_resp.events = <<>>
    /\ all_raw # <<>>
\* the loop stopped on a body without an events list, keeping the earlier
\* pages although further pages had been reported
C22_WitnessNoEvents ==
    /\ ev_pc = "done"
    /\ catalog_requests = 2
    /\ page_resp.kind = "no_embedded"
    /\ ev_ret.events # <<>>

\* C23: a call with candidates returns a RecommendationSet in which the
\* weather of every ScoredEvent is the forecast stored under the date of that
\* event, and None when the forecast map has none for that date, also when
\* candidates share an event_id.
C23_WeatherOfOwnDate ==
    CalledOnEvents =>
        /\ result.status = "returned"
        /\ \A i \in DOMAIN Recs :
              Recs[i].weather
                = DictGet(weather_out.forecasts, Recs[i].event.date)

\* C24: for a request whose start_date is not after its end_date, the range
\* sent to the forecast API starts at start_date, ends at
\* min(end_date, today + 16 days), and its start is not after its end.
C24_RangeTrimmed ==
    (forecast_params.sent /\ request.start_date <= request.end_date) =>
        /\ forecast_params.start_date = request.start_date
        /\ forecast_params.end_date
             = Min(request.end_date, today + FORECAST_LIMIT_DAYS)
        /\ forecast_params.start_date <= forecast_params.end_date

\* C28: a finished run_events_agent task holds either events with error None
\* and total_found = len(events), or an error text with no events and
\* total_found 0, also when pages had been accumulated before the failure; a
\* finished run_weather_agent task holds either forecasts with error None or
\* an error text with no forecasts.
C28_PayloadOrError ==
    /\ ev_pc \in {"none", "running", "done", "failed"}
    /\ wx_pc \in {"none", "geocode", "forecast", "done", "failed"}
    /\ ev_pc = "done" =>
          /\ ev_ret.error = <<>>
          /\ ev_ret.total_found = Len(ev_ret.events)
    /\ ev_pc = "failed" =>
          /\ ev_ret.error # <<>>
          /\ ev_ret.events = <<>>
          /\ ev_ret.total_found = 0
    /\ wx_pc = "done" => wx_ret.error = <<>>
    /\ wx_pc = "failed" =>
          /\ wx_ret.error # <<>>
          /\ wx_ret.forecasts = EmptyForecasts
C28_Witness ==
    /\ ev_pc = "failed"
    /\ catalog_requests >= 2
    /\ catalog_items > 0
    /\ ev_ret.events = <<>>
    /\ wx_pc = "done"
    /\ wx_ret.forecasts # EmptyForecasts
C28_WitnessSuccess ==
    /\ ev_pc = "done"
    /\ ev_ret.total_found = MaxCatalog
    /\ wx_pc = "failed"

\* C26: a question asked reaches the judge, and the messages passed are one
\* system message that starts with the instructions and the grounding block,
\* then the messages of the history in their order, role and content
\* unchanged, then the question as a user message.
C26_MessageOrder ==
    QACalled =>
        /\ qa_calls = 1
        /\ Len(messages) = Len(Prior) + 2
        /\ messages[1].role = "system"
        /\ IsPrefix(Instructions \o build_context(qa_recs), messages[1].content)
        /\ \A i \in DOMAIN Prior : messages[i + 1] = Prior[i]
        /\ Last(messages) = QAMessage("user", qa.user_question)

\* C29: the history list passed to run_qa_agent is the same after the call as
\* before it, and the returned history is that list followed by the question
\* and the answer of this call only, also for a second call made with the
\* list of an earlier call.
C29_CallerHistoryUnchanged ==
    /\ [][qa'.conversation_history = history]_vars
    /\ []((QACalled /\ qa_judge.kind # "pending") =>
            /\ QAReturned
            /\ Updated = Prior \o <<QAMessage("user", qa.user_question),
                                    QAMessage("assistant", qa_ret.answer)>>)

\* ------------------------------------------------------------------------
\* Properties of _is_weekend (SpecWeekend)
\* ------------------------------------------------------------------------
\* the calendar, written independently of datetime: the length of a month,
\* and the day of the week by Zeller's congruence (0 is Saturday, 1 Sunday,
\* 6 Friday)
NamesADay(y, m, d) ==
    /\ m \in 1..12
    /\ d >= 1
    /\ d <= (IF m = 2
             THEN (IF y % 4 = 0 /\ (y % 100 # 0 \/ y % 400 = 0) THEN 29 ELSE 28)
             ELSE IF m \in {4, 6, 9, 11} THEN 30 ELSE 31)
Zeller(y, m, d) ==
    LET mm == IF m < 3 THEN m + 12 ELSE m
        yy == IF m < 3 THEN y - 1 ELSE y
    IN  (d + ((13 * (mm + 1)) \div 5) + (yy % 100) + ((yy % 100) \div 4)
           + ((yy \div 100) \div 4) + 5 * (yy \div 100)) % 7
FriSatSun(y, m, d) == NamesADay(y, m, d) /\ Zeller(y, m, d) \in {6, 0, 1}

\* C25, as stated: _is_weekend returns, and it returns True exactly for the
\* strings of the form YYYY-MM-DD (four, two and two digits) that name a
\* Friday, a Saturday or a Sunday.
C25_WeekendOfPaddedDate ==
    pc = "done" =>
        /\ weekend_ret.returned
        /\ weekend_ret.value
             = (/\ date_str.kind = "ymd"
                /\ date_str.form = "padded"
                /\ FriSatSun(date_str.y, date_str.m, date_str.d))

\* C25, amended: _is_weekend returns, and it returns True exactly for the
\* strings made of a four-digit year, a month and a day joined by dashes that
\* name a Friday, a Saturday or a Sunday, the month and the day written with
\* one or two digits and a one-digit day also with a space before it.
C25_WeekendOfDate ==
    pc = "done" =>
        /\ weekend_ret.returned
        /\ weekend_ret.value
             = (/\ date_str.kind = "ymd"
                /\ FriSatSun(date_str.y, date_str.m, date_str.d))
C25_Witness ==
    /\ pc = "done"
    /\ date_str.raw = DateText(2026, 3, 6, "padded")
    /\ weekend_ret.value
C25_WitnessInvalid ==
    /\ pc = "done"
    /\ date_str.raw = DateText(2026, 2, 29, "padded")
    /\ ~weekend_ret.value

\* ------------------------------------------------------------------------
\* Properties of the candidate list and of the reply entries (SpecRank)
\* ------------------------------------------------------------------------
CandidatePrefix ==
    SubSeq(events_out.events, 1, Min(LLM_EVENT_LIMIT, Len(events_out.events)))

\* C27: a call with events sends the judge a prompt that describes the first
\* min(50, number of events) events of the collected list, in order, and
\* every event of the returned recommendations is one of them.
C27_CandidatesArePrefix ==
    CalledOnEvents =>
        /\ judge_calls = 1
        /\ Len(prompt) = Len(CandidatePrefix)
        /\ \A i \in DOMAIN prompt : prompt[i].event = CandidatePrefix[i]
        /\ \A i \in DOMAIN Recs : Recs[i].event \in Range(CandidatePrefix)

\* entries of the reply that carry the event_id of a recommendation
EntriesFor(rec) ==
    {k \in DOMAIN judge.value.items :
        judge.value.items[k].o["event_id"] = JStr(rec.event.event_id)}
LastEntryFor(rec) ==
    judge.value.items[CHOOSE k \in EntriesFor(rec) :
                        \A j \in EntriesFor(rec) : j <= k].o

\* C30: a call with candidates returns a RecommendationSet; every event of it
\* is a candidate and is returned at most as often as the candidate list holds
\* it; when the reply was parsed there is at most one ScoredEvent per
\* event_id, an entry whose event_id no candidate has adds none, and the score
\* and the reason of a ScoredEvent are those of the last entry with its
\* event_id (0 and "Not scored by LLM" without one).
C30_RecsAreCandidates ==
    CalledOnEvents =>
        /\ result.status = "returned"
        /\ \A i \in DOMAIN Recs :
              /\ Recs[i].event \in Range(Cands)
              /\ Cardinality({j \in DOMAIN Recs : Recs[j].event = Recs[i].event})
                   <= Cardinality({j \in DOMAIN Cands : Cands[j] = Recs[i].event})
        /\ judge.status = "parsed" =>
              /\ \A i, j \in DOMAIN Recs :
                    Recs[i].event.event_id = Recs[j].event.event_id => i = j
              /\ \A i \in DOMAIN Recs :
                    IF EntriesFor(Recs[i]) = {}
                    THEN /\ Recs[i].relevance_score = 0
                         /\ Recs[i].score_reason = "Not scored by LLM"
                    ELSE /\ Recs[i].relevance_score
                              = LastEntryFor(Recs[i])["score"].n
                         /\ Recs[i].score_reason
                              = LastEntryFor(Recs[i])["reason"].s

====
